---- MODULE Spec2Model ----
(***************************************************************************)
(* Model of the live-assistant backend (src/src/server.py): the microphone *)
(* segmentation loop and its supervisor, the transcription hand-off, the   *)
(* event queue with long-poll wait and capped history, the serialized      *)
(* speak pipeline with its barge-in poll, and the overlay broadcast hub.   *)
(*                                                                         *)
(* Time: the Segmenter's clock is counted in ticks, one tick being one     *)
(* frame period (frame_samples / sample_rate = 512 / 16000 s = 32 ms).     *)
(* Utterance durations in the dispatcher are in milliseconds.              *)
(***************************************************************************)
EXTENDS Integers, Sequences, FiniteSets, TLC

\* ------------------------------------------------------------------ bounds
MaxFrames == 4          \* frames the audio callback delivers in a run of SpecMic
MaxTime == 4            \* last clock value (ticks) a frame reads in SpecMic
SpeakFrames == 2        \* frames the audio callback delivers in a run of Spec
SpeakTime == 3          \* last clock value (ticks) a frame reads in Spec
SpeakCallers == 1       \* speak requests in a run of Spec
LockFrames == 1         \* frames the audio callback delivers in a run of SpecLock
MaxCrashes == 1         \* crashes of the mic loop in one run
NumCallers == 2         \* concurrent speak requests in a run of SpecLock
NumListeners == 2       \* overlay SSE connections
NumWaiters == 2         \* wait requests the model has room for
StreamWaiters == 1      \* wait requests in flight in a run of SpecStream
MaxEvents == 3          \* events published in a run of SpecStream
MaxMicEvents == 1       \* dispatches in a run of SpecStream
MaxHistEvents == 23     \* events published in a run of SpecHistory
MaxDispatches == 3      \* utterances dispatched in a run of SpecDispatch
FifoEvents == 2         \* events published in a run of SpecFifo
DeliverEvents == 2      \* events published in a run of SpecDeliver
DeliverWaiters == 2     \* wait requests in flight in a run of SpecDeliver
MaxFetches == 3         \* audio requests in a run of SpecAudio
RingFrames == 11        \* frames the audio callback delivers in a run of SpecRing
SegFrames == 7          \* frames the audio callback delivers in a run of SpecSeg
SegTime == 6            \* last clock value (ticks) a frame reads in SpecSeg
PacedFrames == 8        \* frames delivered in SpecSeg while an utterance is paced

\* ------------------------------------------------------- program constants
sample_rate == 16000
frame_samples == 512
history_max == 20
PollCount == 50
short_clip_ms == 1500
long_text_len == 20

\* configuration values (ctx.config), scaled so that a few frames suffice
speech_threshold == 50      \* percent
silence_duration == 2       \* ticks
max_speech_sec == 3         \* ticks
PreBufferCfg == 64          \* pre_buffer_sec, in milliseconds
min_speech_ms == 64
no_speech_threshold == 80   \* percent

FrameMs == (frame_samples * 1000) \div sample_rate

Callers == 1..NumCallers
Listeners == 1..NumListeners
Waiters == 1..NumWaiters

NoOwner == 0
NoHistory == <<"no history">>

VARIABLES
  \* --- mic task (_mic_loop_with_restart / _continuous_mic_loop)
  micPc,              \* "start" | "get" | "transcribe" | "backoff" | "ended"
  stream_open,        \* sd.InputStream started and not yet closed
  audio_queue,        \* frames handed over by the audio callback
  frames_total,       \* frames ever delivered (frame identity)
  state,              \* local state of the frame loop
  mic_vad_state,      \* ctx.mic_vad_state
  ring_buf,
  speech_buf,
  speech_start_time,
  silence_start_time,
  now,                \* last value of time.time() read by the frame loop
  whisper_loaded,     \* ctx.whisper_model is not None
  pre_buffer_sec,     \* vad_config["pre_buffer_sec"], in milliseconds
  crashes,            \* crashes of the mic loop so far
  recording,          \* the history variables below are being recorded
  seen,               \* frames scored by the running loop, with their scores
  idle_run,           \* frames pushed into the ring since it was last empty
  utt,                \* frames taken since the onset, the onset frame first
  finals,             \* utterances the running loop has finalized
  paced,              \* each frame since the onset was read one tick after
                      \* the frame before it
  \* --- event stream
  event_queue,        \* ctx.event_queue
  history,            \* ctx.history
  total_comments,     \* ctx.total_comments
  published,          \* every event ever put on the queue, in put order
  drained,            \* every event ever returned by wait, in return order
  dispatches,         \* calls of _transcribe_and_enqueue so far
  wpc,                \* per wait call: "idle" | "blocked" | "woken"
  wargs,              \* per wait call: its arguments and what it saw at call
  getters,            \* asyncio.Queue._getters: blocked wait calls, FIFO
  lastWait,           \* record of the most recently returned wait call
  lastDispatch,       \* record of the most recent _transcribe_and_enqueue
  \* --- speak
  spc,                \* per speak call: position in _speak_impl
  lock_owner,         \* ctx._speak_lock holder, NoOwner when unlocked
  lock_waiters,       \* asyncio.Lock._waiters, FIFO
  polls,              \* per speak call: sleeps of the poll loop so far (0 outside it)
  result,             \* per speak call: kind of the returned string
  eff,                \* per speak call: what the call did
  \* --- overlay hub
  sse_clients,        \* ctx.sse_clients
  audio_cache,        \* ctx._audio_cache: audio id -> payload
  detached,           \* connections that have left ctx.sse_clients
  fetches,            \* requests handle_overlay_audio has answered
  served,             \* per audio id: responses that carried a payload
  lastFetch,          \* record of the most recent handle_overlay_audio
  \* --- a _broadcast_sse call followed write by write
  bpc,                \* "idle" | "writing" | "done" | "raised"
  b_next,             \* items the list iterator has yielded
  b_cur,              \* the client being written to
  b_dead,             \* the local list `dead`
  b_delivered,        \* clients whose write succeeded
  b_start             \* clients attached when the call began

micVars == <<micPc, stream_open, audio_queue, frames_total, state,
             mic_vad_state, ring_buf, speech_buf, speech_start_time,
             silence_start_time, now, whisper_loaded,
             pre_buffer_sec, crashes,
             recording, seen, idle_run, utt, finals, paced>>
streamVars == <<event_queue, history, total_comments, published, drained,
                dispatches, wpc, wargs, getters, lastWait, lastDispatch>>
speakVars == <<spc, lock_owner, lock_waiters, polls, result, eff>>
castVars == <<bpc, b_next, b_cur, b_dead, b_delivered, b_start>>
fetchVars == <<fetches, served, lastFetch>>
hubVars == <<sse_clients, audio_cache, detached, castVars, fetchVars>>
vars == <<micVars, streamVars, speakVars, hubVars>>

\* ---------------------------------------------------------------- helpers
Max(a, b) == IF a >= b THEN a ELSE b
Min(a, b) == IF a <= b THEN a ELSE b

LastN(s, n) == IF Len(s) <= n THEN s ELSE SubSeq(s, Len(s) - n + 1, Len(s))
FirstN(s, n) == IF Len(s) <= n THEN s ELSE SubSeq(s, 1, n)

RECURSIVE Remove(_, _)
Remove(s, x) ==
  IF s = <<>> THEN <<>>
  ELSE IF Head(s) = x THEN Tail(s)
  ELSE <<Head(s)>> \o Remove(Tail(s), x)

Elems(s) == {s[i] : i \in 1..Len(s)}

\* a history variable takes its new value only while recording
Log(old, new) == IF recording THEN new ELSE old

\* mutant: the frame count is rounded up
RingCapacityCeil(ms) ==
  Max(1, (ms * sample_rate + frame_samples * 1000 - 1)
           \div (frame_samples * 1000))

\* line 476: max(1, int(pre_buffer_sec * sample_rate / frame_samples)),
\* with pre_buffer_sec given in milliseconds
RingCapacity(ms) == Max(1, (ms * sample_rate) \div (frame_samples * 1000))

pre_buffer_frames == RingCapacity(pre_buffer_sec)

\* mutant: a full ring refuses the new frame
RingAppendKeepsOldest(ring, f) == FirstN(Append(ring, f), pre_buffer_frames)

\* deque(maxlen=pre_buffer_frames).append
RingAppend(ring, f) == LastN(Append(ring, f), pre_buffer_frames)

\* ------------------------------------------------- transcription dispatcher
\* duration = len(audio) / 16000, in milliseconds
DurationMs(buf) == (Len(buf) * frame_samples * 1000) \div sample_rate

\* round(duration, 1), in milliseconds (nearest 100 ms, ties to even)
Round1(ms) ==
  LET q == ms \div 100
      r == ms % 100
  IN IF r < 50 THEN q * 100
     ELSE IF r > 50 THEN (q + 1) * 100
     ELSE IF q % 2 = 0 THEN q * 100 ELSE (q + 1) * 100

\* What the executor call of _do_transcribe can deliver: an exception, or a
\* text (its length) with the maximum no_speech_prob (percent).
SttResults ==
  [raises : {TRUE}, text_len : {0}, no_speech_prob : {0}]
  \cup [raises : {FALSE},
        text_len : {0, long_text_len, long_text_len + 1},
        no_speech_prob : {no_speech_threshold, no_speech_threshold + 1}]

\* _transcribe_and_enqueue up to the executor call: TRUE when the call is made
CallsStt(duration, loaded) ==
  /\ ~(duration < min_speech_ms)
  /\ loaded

\* mutant: a short clip is rejected from 20 characters on
PutsEventUnderTwenty(duration, stt) ==
  /\ ~stt.raises
  /\ stt.text_len # 0
  /\ ~(stt.no_speech_prob > no_speech_threshold)
  /\ ~(duration < short_clip_ms /\ stt.text_len >= long_text_len)

\* _transcribe_and_enqueue after the executor call: TRUE when an event is put
PutsEvent(duration, stt) ==
  /\ ~stt.raises
  /\ stt.text_len # 0
  /\ ~(stt.no_speech_prob > no_speech_threshold)
  /\ ~(duration < short_clip_ms /\ stt.text_len > long_text_len)

MicEvent(duration, n) ==
  [source |-> "mic", seq |-> n, number |-> 0, duration_sec |-> Round1(duration)]

CommentEvent(number, n) ==
  [source |-> "comment", seq |-> n, number |-> number, duration_sec |-> 0]

\* asyncio.Queue.put_nowait: append the item, wake the first blocked getter
QueuePut(ev) ==
  /\ event_queue' = Append(event_queue, ev)
  /\ published' = Append(published, ev)
  /\ IF getters # <<>>
       THEN /\ wpc' = [wpc EXCEPT ![Head(getters)] = "woken"]
            /\ getters' = Tail(getters)
       ELSE UNCHANGED <<wpc, getters>>

\* ------------------------------------------------------------ the mic task
Scores == {speech_threshold - 1, speech_threshold}

\* mutant: the supervisor gives up after the first crash
SupervisorGivesUp(n) == n < 1

\* `while True` of _mic_loop_with_restart: after n crashes the loop is
\* called again
SupervisorRetries(n) == TRUE

\* _continuous_mic_loop from its first line to the first audio_queue.get():
\* run by the supervisor at start-up and after each backoff sleep.  With
\* ok = FALSE the set-up (SileroVAD, sd.InputStream, stream.start) raises.
MicStart(ok) ==
  /\ micPc \in {"start", "backoff"}
  /\ SupervisorRetries(crashes)
  /\ IF ok
       THEN /\ micPc' = "get"
            /\ stream_open' = TRUE
            /\ audio_queue' = <<>>
            /\ state' = "IDLE"
            /\ ring_buf' = <<>>
            /\ speech_buf' = <<>>
            /\ speech_start_time' = 0
            /\ silence_start_time' = 0
            /\ seen' = <<>>
            /\ idle_run' = <<>>
            /\ utt' = <<>>
            /\ finals' = <<>>
            /\ paced' = TRUE
            /\ UNCHANGED crashes
       ELSE /\ micPc' = "backoff"
            /\ crashes' = crashes + 1
            /\ UNCHANGED <<stream_open, audio_queue, state, ring_buf,
                           speech_buf, speech_start_time, silence_start_time,
                           seen, idle_run, utt, finals, paced>>
  /\ UNCHANGED <<frames_total, mic_vad_state, now, whisper_loaded,
                 pre_buffer_sec, recording>>
  /\ UNCHANGED <<streamVars, speakVars, hubVars>>

\* _audio_callback on the audio thread: hand one frame to the loop's queue
AudioCallback ==
  /\ stream_open
  /\ frames_total' = frames_total + 1
  /\ audio_queue' = Append(audio_queue, frames_total + 1)
  /\ UNCHANGED <<micPc, stream_open, state, mic_vad_state, ring_buf,
                 speech_buf, speech_start_time, silence_start_time, now,
                 whisper_loaded,
                 pre_buffer_sec, recording, crashes, seen, idle_run, utt,
                 finals, paced>>
  /\ UNCHANGED <<streamVars, speakVars, hubVars>>

\* reset after _transcribe_and_enqueue returns (lines 542-545, 561-564)
MicReset ==
  /\ speech_buf' = <<>>
  /\ ring_buf' = <<>>
  /\ state' = "IDLE"
  /\ mic_vad_state' = "IDLE"
  /\ idle_run' = <<>>
  /\ utt' = <<>>

\* the executor call has not (yet) delivered anything
NoStt == [raises |-> FALSE, text_len |-> 0, no_speech_prob |-> 0]

NoDispatch == [duration |-> 0, stt_calls |-> 0, stt |-> NoStt, put |-> 0,
               outcome |-> "none", at |-> 0]

\* mutant: the executor call is not guarded
SttCatchesNothing(exc) == FALSE

\* `except Exception` around the executor call (lines 410-417)
SttCatches(exc) == TRUE

\* finalize: await _transcribe_and_enqueue(ctx, buf).  The call returns
\* without suspending when it skips the utterance; otherwise the loop is
\* suspended in the executor call with the buffer still held.
MicFinalize(buf) ==
  /\ dispatches' = dispatches + 1
  /\ finals' = Log(finals, Append(finals, buf))
  /\ IF CallsStt(DurationMs(buf), whisper_loaded)
       THEN /\ micPc' = "transcribe"
            /\ speech_buf' = buf
            /\ utt' = Log(utt, Append(utt, buf[Len(buf)]))
            /\ lastDispatch' =
                 Log(lastDispatch,
                     [NoDispatch EXCEPT !.duration = DurationMs(buf),
                                        !.stt_calls = 1,
                                        !.outcome = "pending",
                                        !.at = Len(seen) + 1])
            /\ UNCHANGED <<ring_buf, state, mic_vad_state, idle_run>>
       ELSE /\ micPc' = "get"
            /\ lastDispatch' =
                 Log(lastDispatch,
                     [NoDispatch EXCEPT !.duration = DurationMs(buf),
                                        !.outcome = "returned",
                                        !.at = Len(seen) + 1])
            /\ MicReset

\* mutant: the duration is measured from the current frame
ElapsedFromNow(t, start) == 0

\* line 538: elapsed = now - speech_start_time
Elapsed(t, start) == t - start

\* mutant: the flush waits until the limit is exceeded
MaxReachedLate(elapsed) == elapsed > max_speech_sec

\* line 539: elapsed >= max_speech_sec
MaxReached(elapsed) == elapsed >= max_speech_sec

\* mutant: any silent frame in TRAILING ends the utterance
SilenceElapsedAtOnce(silence) == TRUE

\* line 557: now - silence_start_time >= silence_duration
SilenceElapsed(silence) == silence >= silence_duration

\* mutant: the triggering frame is put in front of the pre-roll
SeedFrameFirst(ring, frame) == <<frame>> \o ring

\* line 528: speech_buf = list(ring_buf) + [frame_flat]
SeedUtterance(ring, frame) == ring \o <<frame>>

\* mutant: the onset leaves the ring as it is
RingKeptAtOnset(ring) == ring

\* line 529: ring_buf.clear() once the ring is copied into speech_buf
RingAfterOnset(ring) == <<>>

\* mutant: the timer of an earlier silence of the utterance is kept
SilenceStartKept(prev, t) == IF prev = 0 THEN t ELSE prev

\* line 549: silence_start_time = now
SilenceStart(prev, t) == t

\* one iteration of the frame loop: a frame is taken, the clock is read (t),
\* the scorer returns prob, and the state machine advances.
MicFrame(prob, t) ==
  /\ micPc = "get"
  /\ audio_queue # <<>>
  /\ t >= now
  /\ now' = t
  /\ audio_queue' = Tail(audio_queue)
  /\ seen' = Log(seen, Append(seen, [frame |-> Head(audio_queue),
                                     prob |-> prob]))
  /\ paced' = Log(paced, IF state = "IDLE" THEN TRUE
                         ELSE paced /\ t = now + 1)
  /\ LET frame == Head(audio_queue) IN
     CASE state = "IDLE" ->
            /\ IF prob >= speech_threshold
                 THEN /\ state' = "SPEAKING"
                      /\ mic_vad_state' = "SPEAKING"
                      /\ speech_buf' = SeedUtterance(ring_buf, frame)
                      /\ ring_buf' = RingAfterOnset(ring_buf)
                      /\ speech_start_time' = t
                      /\ utt' = Log(utt, <<frame>>)
                      /\ UNCHANGED idle_run
                 ELSE /\ ring_buf' = RingAppend(ring_buf, frame)
                      /\ idle_run' = Log(idle_run, Append(idle_run, frame))
                      /\ UNCHANGED <<state, mic_vad_state, speech_buf,
                                     speech_start_time, utt>>
            /\ UNCHANGED <<micPc, silence_start_time, dispatches, finals,
                           lastDispatch>>
       [] state = "SPEAKING" ->
            IF MaxReached(Elapsed(t, speech_start_time))
              THEN /\ MicFinalize(Append(speech_buf, frame))
                   /\ UNCHANGED <<speech_start_time, silence_start_time>>
              ELSE /\ speech_buf' = Append(speech_buf, frame)
                   /\ utt' = Log(utt, Append(utt, frame))
                   /\ IF prob < speech_threshold
                        THEN /\ state' = "TRAILING"
                             /\ mic_vad_state' = "TRAILING"
                             /\ silence_start_time' =
                                  SilenceStart(silence_start_time, t)
                        ELSE UNCHANGED <<state, mic_vad_state,
                                         silence_start_time>>
                   /\ UNCHANGED <<micPc, ring_buf, speech_start_time,
                                  dispatches, idle_run, finals, lastDispatch>>
       [] state = "TRAILING" ->
            IF prob >= speech_threshold
              THEN /\ speech_buf' = Append(speech_buf, frame)
                   /\ utt' = Log(utt, Append(utt, frame))
                   /\ state' = "SPEAKING"
                   /\ mic_vad_state' = "SPEAKING"
                   /\ UNCHANGED <<micPc, ring_buf, speech_start_time,
                                  silence_start_time, dispatches, idle_run,
                                  finals, lastDispatch>>
              ELSE IF SilenceElapsed(t - silence_start_time)
                THEN /\ MicFinalize(Append(speech_buf, frame))
                     /\ UNCHANGED <<speech_start_time, silence_start_time>>
                ELSE /\ speech_buf' = Append(speech_buf, frame)
                     /\ utt' = Log(utt, Append(utt, frame))
                     /\ UNCHANGED <<micPc, ring_buf, state, mic_vad_state,
                                    speech_start_time, silence_start_time,
                                    dispatches, idle_run, finals,
                                    lastDispatch>>
  /\ UNCHANGED <<stream_open, frames_total, whisper_loaded,
                 pre_buffer_sec, recording, crashes>>
  /\ UNCHANGED <<event_queue, history, total_comments, published, drained,
                 wpc, wargs, getters, lastWait>>
  /\ UNCHANGED <<speakVars, hubVars>>

\* an exception leaves _continuous_mic_loop: the finally clause closes the
\* stream and the supervisor logs the crash and sleeps 5 s
MicLoopRaises ==
  /\ micPc' = "backoff"
  /\ stream_open' = FALSE
  /\ crashes' = crashes + 1

\* one iteration of the frame loop in which vad.process raises: the
\* exception leaves the loop through the finally clause (stream closed) and
\* reaches the supervisor, which logs it and sleeps 5 s.
MicFrameCrash(t) ==
  /\ micPc = "get"
  /\ audio_queue # <<>>
  /\ t >= now
  /\ now' = t
  /\ audio_queue' = Tail(audio_queue)
  /\ MicLoopRaises
  /\ UNCHANGED <<frames_total, state, mic_vad_state, ring_buf, speech_buf,
                 speech_start_time, silence_start_time, whisper_loaded,
                 pre_buffer_sec, recording,
                 seen, idle_run, utt, finals, paced>>
  /\ UNCHANGED <<streamVars, speakVars, hubVars>>

\* the executor call of _transcribe_and_enqueue returns (stt): the event is
\* put or not, the call returns and the loop resets (no suspension between).
MicTranscribeDone(stt) ==
  /\ micPc = "transcribe"
  /\ IF stt.raises /\ ~SttCatches("stt_error")
       THEN /\ MicLoopRaises
            /\ lastDispatch' =
                 Log(lastDispatch, [lastDispatch EXCEPT !.stt = stt,
                                                        !.outcome = "raised"])
            /\ UNCHANGED <<event_queue, published, wpc, getters, state,
                           mic_vad_state, ring_buf, speech_buf, idle_run,
                           utt>>
       ELSE /\ IF PutsEvent(DurationMs(speech_buf), stt)
                 THEN QueuePut(MicEvent(DurationMs(speech_buf),
                                        Len(published) + 1))
                 ELSE UNCHANGED <<event_queue, published, wpc, getters>>
            /\ lastDispatch' =
                 Log(lastDispatch,
                     [lastDispatch EXCEPT
                        !.stt = stt,
                        !.put = Len(published') - Len(published),
                        !.outcome = "returned"])
            /\ micPc' = "get"
            /\ MicReset
            /\ UNCHANGED <<stream_open, crashes>>
  /\ UNCHANGED <<audio_queue, frames_total, speech_start_time,
                 silence_start_time, now, whisper_loaded,
                 pre_buffer_sec, recording, seen, finals, paced>>
  /\ UNCHANGED <<history, total_comments, drained, dispatches, wargs,
                 lastWait>>
  /\ UNCHANGED <<speakVars, hubVars>>

\* ctx.mic_task.cancel() (app_lifespan, line 650) takes effect where the
\* task is suspended.  Not yet started: the task ends without running.  In
\* audio_queue.get(): CancelledError is caught at line 515, the loop breaks
\* and the finally clause closes the stream.  In the executor call of
\* _transcribe_and_enqueue: CancelledError is not an Exception, so it passes
\* the except clause of line 415 and leaves the dispatcher before its put,
\* then the loop through the finally clause.  In the backoff sleep: it
\* leaves the supervisor, the stream being closed already.
MicCancel ==
  /\ micPc # "ended"
  /\ micPc' = "ended"
  /\ stream_open' = FALSE
  /\ lastDispatch' =
       IF micPc = "transcribe"
         THEN Log(lastDispatch, [lastDispatch EXCEPT !.outcome = "cancelled"])
         ELSE lastDispatch
  /\ UNCHANGED <<audio_queue, frames_total, state, mic_vad_state, ring_buf,
                 speech_buf, speech_start_time, silence_start_time, now,
                 whisper_loaded,
                 pre_buffer_sec, crashes, recording, seen, idle_run, utt,
                 finals, paced>>
  /\ UNCHANGED <<event_queue, history, total_comments, published, drained,
                 dispatches, wpc, wargs, getters, lastWait>>
  /\ UNCHANGED <<speakVars, hubVars>>

\* -------------------------------------------------------- overlay hub
\* _broadcast_sse: write to every client, drop those whose write failed
\* (dead), keep the order of the others.
RECURSIVE Without(_, _)
Without(s, dead) ==
  IF s = <<>> THEN <<>>
  ELSE IF Head(s) \in dead THEN Without(Tail(s), dead)
  ELSE <<Head(s)>> \o Without(Tail(s), dead)

BroadcastSse(dead) ==
  /\ dead \subseteq Elems(sse_clients)
  /\ sse_clients' = Without(sse_clients, dead)
  /\ detached' = detached \cup dead
  /\ UNCHANGED <<castVars, fetchVars>>

\* handle_overlay_events up to its keepalive loop; every connection is a
\* new StreamResponse
OverlayConnect(l) ==
  /\ l \notin Elems(sse_clients)
  /\ l \notin detached
  /\ sse_clients' = Append(sse_clients, l)
  /\ UNCHANGED <<audio_cache, detached, castVars, fetchVars, micVars,
                 streamVars, speakVars>>

\* handle_overlay_events leaving its keepalive loop (finally clause)
OverlayDisconnect(l) ==
  /\ l \in Elems(sse_clients)
  /\ sse_clients' = Remove(sse_clients, l)
  /\ detached' = detached \cup {l}
  /\ UNCHANGED <<audio_cache, castVars, fetchVars, micVars, streamVars,
                 speakVars>>

\* `for d in dead: ctx.sse_clients.remove(d)`: list.remove raises
\* ValueError on a client that is no longer in the list, which ends the
\* loop and the broadcast
RECURSIVE RemoveDead(_, _)
RemoveDead(clients, dead) ==
  IF dead = <<>> THEN [clients |-> clients, raised |-> FALSE]
  ELSE IF Head(dead) \notin Elems(clients)
    THEN [clients |-> clients, raised |-> TRUE]
  ELSE RemoveDead(Remove(clients, Head(dead)), Tail(dead))

\* `for client in ctx.sse_clients` resumes with i items already yielded:
\* the list iterator yields item i + 1 of the list as it is now and the
\* call suspends in client.write, or the list is exhausted and the dead
\* clients are removed
BroadcastIterate(i, dead) ==
  IF i < Len(sse_clients)
    THEN /\ bpc' = "writing"
         /\ b_cur' = sse_clients[i + 1]
         /\ b_next' = i + 1
         /\ UNCHANGED <<sse_clients, detached>>
    ELSE LET r == RemoveDead(sse_clients, dead) IN
         /\ bpc' = IF r.raised THEN "raised" ELSE "done"
         /\ sse_clients' = r.clients
         /\ detached' = detached \cup (Elems(sse_clients) \ Elems(r.clients))
         /\ UNCHANGED <<b_cur, b_next>>

\* _broadcast_sse is called
BroadcastCall ==
  /\ bpc # "writing"
  /\ b_dead' = <<>>
  /\ b_delivered' = {}
  /\ b_start' = Elems(sse_clients)
  /\ BroadcastIterate(0, <<>>)
  /\ UNCHANGED <<audio_cache, fetchVars, micVars, streamVars, speakVars>>

\* the write to b_cur returns (ok) or raises, and the loop goes on
BroadcastWriteDone(ok) ==
  /\ bpc = "writing"
  /\ IF ok
       THEN /\ b_delivered' = b_delivered \cup {b_cur}
            /\ UNCHANGED b_dead
       ELSE /\ b_dead' = Append(b_dead, b_cur)
            /\ UNCHANGED b_delivered
  /\ BroadcastIterate(b_next, b_dead')
  /\ UNCHANGED <<b_start, audio_cache, fetchVars, micVars, streamVars,
                 speakVars>>

\* the audio ids a request can name: the id of each speak call (a fresh
\* uuid4 prefix per call) and one that was never issued
UnknownId == NumCallers + 1
AudioIds == Callers \cup {UnknownId}

\* resp.content of the synthesis request of speak call c
WavOf(c) == <<"wav", c>>

NoBody == <<>>
NoFetch == [id |-> UnknownId, status |-> 0, body |-> NoBody,
            cache_before |-> <<>>]

\* line 769: ctx._audio_cache[audio_id] = wav_data
CachePut(cache, id, wav) == (id :> wav) @@ cache

\* mutant: the entry stays in the cache
CacheKeptOnFetch(cache, id) == cache

\* line 144: what dict.pop(audio_id, None) leaves in the cache
CachePop(cache, id) == [k \in DOMAIN cache \ {id} |-> cache[k]]

\* handle_overlay_audio for a request naming id (no suspension inside)
OverlayAudio(id) ==
  LET wav_data == IF id \in DOMAIN audio_cache THEN audio_cache[id] ELSE NoBody
  IN
  /\ audio_cache' = CachePop(audio_cache, id)
  /\ fetches' = fetches + 1
  /\ IF wav_data = NoBody
       THEN /\ lastFetch' = [id |-> id, status |-> 404, body |-> NoBody,
                             cache_before |-> audio_cache]
            /\ UNCHANGED served
       ELSE /\ lastFetch' = [id |-> id, status |-> 200, body |-> wav_data,
                             cache_before |-> audio_cache]
            /\ served' = [served EXCEPT ![id] = @ + 1]
  /\ UNCHANGED <<sse_clients, detached, castVars, micVars, streamVars,
                 speakVars>>

\* ------------------------------------------------------------------ speak
NoEffect == [tts |-> 0, cached |-> FALSE, bcasts |-> 0, played |-> "no",
             blocked_state |-> "none", full_window |-> FALSE, log |-> <<>>]

\* the text a speak call was given, and the empty text that clears the
\* subtitle
TextOf(c) == <<"text", c>>
NoText == <<>>

\* what a speak call does from line 769 on, as entries of eff[c].log
Cached(id) == [op |-> "cache", arg |-> id]
Subtitle(text) == [op |-> "subtitle", arg |-> text]
SpeakEvent(id) == [op |-> "speak", arg |-> id]
Played == [op |-> "play", arg |-> NoText]
Slept == [op |-> "sleep", arg |-> NoText]

\* positions of a speak call between the acquisition of the lock and return
InLock == {"poll_sleep", "tts_query", "tts_synth", "bcast_subtitle",
           "bcast_speak", "tail", "bcast_clear"}

\* the Segmenter state a playback start coincides with
SegmenterState == IF micPc \in {"get", "transcribe"} THEN state ELSE "NONE"

\* mutant: the else branch of the poll loop falls through to the synthesis
SpeakPollFallsThrough(k, flag) ==
  IF k >= PollCount THEN "PROCEED"
  ELSE IF flag = "IDLE" THEN "PROCEED"
  ELSE "SLEEP"

\* the for/else of _speak_impl_locked after k sleeps, reading the flag
SpeakPoll(k, flag) ==
  IF k >= PollCount THEN "BLOCKED"
  ELSE IF flag = "IDLE" THEN "PROCEED"
  ELSE "SLEEP"

\* what the TTS round-trip can do: succeed, fail in the HTTP exchange
\* (connection error, timeout, raise_for_status), or deliver a body that
\* resp.json() rejects (ValueError)
QueryOutcomes == {"ok", "http_error", "bad_json"}
SynthOutcomes == {"ok", "http_error"}

\* mutant: only HTTP errors are caught
SpeakCatchesHttpOnly(exc) == exc = "http_error"

\* `except Exception` of _speak_impl_locked: every exception of the try
\* blocks is caught and turned into a failure message
SpeakCatches(exc) == TRUE

SpeakFailure(exc, kind) == IF SpeakCatches(exc) THEN kind ELSE "RAISED"

\* mutant: speak does not wait for the lock
LockIgnored == TRUE

\* asyncio.Lock.acquire without suspension: unlocked and nobody queued
LockFree == lock_owner = NoOwner /\ lock_waiters = <<>>

\* `async with app_ctx._speak_lock` leaving: the lock is released
SpeakReturn(c, r) ==
  /\ result' = [result EXCEPT ![c] = r]
  /\ spc' = [spc EXCEPT ![c] = "done"]
  /\ lock_owner' = NoOwner

\* the poll loop from the point where sleep number k has returned (k = 0:
\* from the top) up to the next suspension
SpeakPollFrom(c, k) ==
  LET o == SpeakPoll(k, mic_vad_state) IN
  CASE o = "BLOCKED" ->
         /\ SpeakReturn(c, "BLOCKED")
         /\ eff' = [eff EXCEPT ![c].blocked_state = mic_vad_state]
         /\ polls' = [polls EXCEPT ![c] = 0]
    [] o = "PROCEED" ->
         /\ spc' = [spc EXCEPT ![c] = "tts_query"]
         /\ eff' = [eff EXCEPT ![c].tts = 1]
         /\ lock_owner' = c
         /\ polls' = [polls EXCEPT ![c] = 0]
         /\ UNCHANGED result
    [] o = "SLEEP" ->
         /\ spc' = [spc EXCEPT ![c] = "poll_sleep"]
         /\ polls' = [polls EXCEPT ![c] = k + 1]
         /\ eff' = [eff EXCEPT ![c].full_window = (k + 1 = PollCount)]
         /\ lock_owner' = c
         /\ UNCHANGED result

\* _speak_impl is called: the lock is taken at once when it is free and
\* nobody waits for it, otherwise the call queues behind the others.
SpeakCall(c) ==
  /\ spc[c] = "idle"
  /\ IF LockFree
       THEN /\ SpeakPollFrom(c, 0)
            /\ UNCHANGED lock_waiters
       ELSE /\ lock_waiters' = Append(lock_waiters, c)
            /\ spc' = [spc EXCEPT ![c] = "lock_wait"]
            /\ UNCHANGED <<lock_owner, polls, result, eff>>
  /\ UNCHANGED <<micVars, streamVars, hubVars>>

\* the first waiter is woken by the release and takes the lock
SpeakLockAcquired(c) ==
  /\ spc[c] = "lock_wait"
  /\ lock_owner = NoOwner
  /\ lock_waiters # <<>>
  /\ Head(lock_waiters) = c
  /\ lock_waiters' = Tail(lock_waiters)
  /\ SpeakPollFrom(c, 0)
  /\ UNCHANGED <<micVars, streamVars, hubVars>>

\* asyncio.sleep(0.1) of the poll loop returns
SpeakPollWake(c) ==
  /\ spc[c] = "poll_sleep"
  /\ SpeakPollFrom(c, polls[c])
  /\ UNCHANGED <<lock_waiters, micVars, streamVars, hubVars>>

\* the audio_query request ends with outcome o; on success the synthesis
\* request is sent
SpeakQueryDone(c, o) ==
  /\ spc[c] = "tts_query"
  /\ IF o = "ok"
       THEN /\ spc' = [spc EXCEPT ![c] = "tts_synth"]
            /\ eff' = [eff EXCEPT ![c].tts = 2]
            /\ UNCHANGED <<result, lock_owner>>
       ELSE /\ SpeakReturn(c, SpeakFailure(o, "TTS_FAILED"))
            /\ UNCHANGED eff
  /\ UNCHANGED <<lock_waiters, polls, micVars, streamVars, hubVars>>

\* the synthesis request ends with outcome o; on success the Sound is
\* built (playable, or pygame raises), the audio is cached and the
\* "subtitle" broadcast starts.
SpeakSynthDone(c, o, playable) ==
  /\ spc[c] = "tts_synth"
  /\ IF o # "ok"
       THEN /\ SpeakReturn(c, SpeakFailure(o, "TTS_FAILED"))
            /\ UNCHANGED <<eff, audio_cache>>
       ELSE IF ~playable
         THEN /\ SpeakReturn(c, SpeakFailure("pygame_error", "PLAY_FAILED"))
              /\ UNCHANGED <<eff, audio_cache>>
         ELSE /\ audio_cache' = CachePut(audio_cache, c, WavOf(c))
              /\ eff' = [eff EXCEPT ![c].cached = TRUE,
                                     ![c].log = Append(@, Cached(c))]
              /\ spc' = [spc EXCEPT ![c] = "bcast_subtitle"]
              /\ UNCHANGED <<result, lock_owner>>
  /\ UNCHANGED <<lock_waiters, polls, sse_clients, detached, castVars,
                 fetchVars, micVars, streamVars>>

\* the "subtitle" broadcast completes; the "speak" broadcast starts
SpeakSubtitleSent(c, dead) ==
  /\ spc[c] = "bcast_subtitle"
  /\ BroadcastSse(dead)
  /\ eff' = [eff EXCEPT ![c].bcasts = 1,
                         ![c].log = Append(@, Subtitle(TextOf(c)))]
  /\ spc' = [spc EXCEPT ![c] = "bcast_speak"]
  /\ UNCHANGED <<result, lock_owner, lock_waiters, polls, audio_cache,
                 micVars, streamVars>>

\* the "speak" broadcast completes; sound.play() starts the playback
\* (played, or pygame raises) and the call sleeps duration + 0.3 s.
SpeakAudioSent(c, dead, played) ==
  /\ spc[c] = "bcast_speak"
  /\ BroadcastSse(dead)
  /\ IF played
       THEN /\ eff' = [eff EXCEPT ![c].bcasts = 2,
                                  ![c].played = SegmenterState,
                                  ![c].log = @ \o <<SpeakEvent(c), Played>>]
            /\ spc' = [spc EXCEPT ![c] = "tail"]
            /\ UNCHANGED <<result, lock_owner>>
       ELSE /\ eff' = [eff EXCEPT ![c].bcasts = 2,
                                  ![c].log = Append(@, SpeakEvent(c))]
            /\ SpeakReturn(c, SpeakFailure("pygame_error", "PLAY_FAILED"))
  /\ UNCHANGED <<lock_waiters, polls, audio_cache, micVars, streamVars>>

\* the tail sleep returns; the clearing "subtitle" broadcast starts
SpeakTailDone(c) ==
  /\ spc[c] = "tail"
  /\ spc' = [spc EXCEPT ![c] = "bcast_clear"]
  /\ eff' = [eff EXCEPT ![c].log = Append(@, Slept)]
  /\ UNCHANGED <<result, lock_owner, lock_waiters, polls, hubVars,
                 micVars, streamVars>>

\* the clearing broadcast completes; speak returns its success message
SpeakClearSent(c, dead) ==
  /\ spc[c] = "bcast_clear"
  /\ BroadcastSse(dead)
  /\ eff' = [eff EXCEPT ![c].bcasts = 3,
                         ![c].log = Append(@, Subtitle(NoText))]
  /\ SpeakReturn(c, "SUCCESS")
  /\ UNCHANGED <<lock_waiters, polls, audio_cache, micVars, streamVars>>


\* ------------------------------------------------------------ event stream
\* mutant: the counter is advanced by two
CountCommentTwice(total) == total + 2

\* line 306: ctx.total_comments += 1
CountComment(total) == total + 1

\* _enqueue_comment: count the comment and put its event, numbered with
\* the counter as the increment left it (line 312)
EnqueueComment ==
  /\ total_comments' = CountComment(total_comments)
  /\ QueuePut(CommentEvent(total_comments', Len(published) + 1))
  /\ UNCHANGED <<history, drained, dispatches, wargs, lastWait,
                 lastDispatch>>
  /\ UNCHANGED <<micVars, speakVars, hubVars>>

\* _transcribe_and_enqueue, whole, for an utterance of n frames whose
\* executor call (when made) delivers stt
TranscribeAndEnqueue(n, stt) ==
  /\ dispatches' = dispatches + 1
  /\ LET duration == (n * frame_samples * 1000) \div sample_rate
         called == CallsStt(duration, whisper_loaded)
         raised == called /\ stt.raises /\ ~SttCatches("stt_error")
     IN
     /\ IF called /\ ~raised /\ PutsEvent(duration, stt)
          THEN QueuePut(MicEvent(duration, Len(published) + 1))
          ELSE UNCHANGED <<event_queue, published, wpc, getters>>
     /\ lastDispatch' =
          Log(lastDispatch,
              [duration |-> duration,
               stt_calls |-> IF called THEN 1 ELSE 0,
               stt |-> IF called THEN stt ELSE NoStt,
               put |-> Len(published') - Len(published),
               outcome |-> IF raised THEN "raised" ELSE "returned",
               at |-> 0])
  /\ UNCHANGED <<history, total_comments, drained, wargs, lastWait>>
  /\ UNCHANGED <<micVars, speakVars, hubVars>>

Timeouts == {0, 30}
NoWait == [how |-> "none"]
NoArgs == [timeout_sec |-> 0, include_history |-> FALSE,
           queue_at_call |-> <<>>, item |-> <<>>]

\* mutant: the drain stops after one item
DrainCountOne(q) == IF q = <<>> THEN 0 ELSE 1

\* _drain_queue: how many items of q the loop moves to results
DrainCount(q) == Len(q)

DrainResults(q) == SubSeq(q, 1, DrainCount(q))

\* mutant: the drain leaves the items it returns in the queue
DrainRestAll(q) == q

\* _drain_queue: what get_nowait leaves in the queue
DrainRest(q) == SubSeq(q, DrainCount(q) + 1, Len(q))

\* _get_stream_status_impl, line 841: pending_comments_in_queue
PendingCount == Len(event_queue)

\* mutant: an empty first drain blocks whatever the timeout
WaitBlocksAlways(results, timeout_sec) == results = <<>>

\* lines 687-690: the call blocks in q.get() when the first drain found
\* nothing and time remains
WaitBlocks(results, timeout_sec) == results = <<>> /\ timeout_sec > 0

\* mutant: the snapshot is taken after the append
ResultHistoryLate(before, after, include_history) ==
  IF include_history THEN after ELSE NoHistory

\* line 701 and 711-712: the history field of the result; `before` is the
\* copy list(app_ctx.history) taken before the append, `after` the list
\* app_ctx.history as the append left it
ResultHistory(before, after, include_history) ==
  IF include_history THEN before ELSE NoHistory

\* mutant: nothing is appended
HistoryAppendNothing(h, results) == h

\* lines 704-705
HistoryAppend(h, results) == h \o results

\* mutant: the trim keeps the oldest entries
HistoryTrimHead(h) == FirstN(h, history_max)

\* lines 707-708
HistoryTrim(h) == IF Len(h) > history_max THEN LastN(h, history_max) ELSE h

\* lines 700-714: wait call w returns `results`, having drained to `rest`
WaitFinish(w, args, results, rest, how) ==
  LET appended == HistoryAppend(history, results)
      trimmed == HistoryTrim(appended)
  IN
  /\ history' = trimmed
  /\ event_queue' = rest
  /\ drained' = drained \o results
  /\ lastWait' = [timeout_sec |-> args.timeout_sec,
                  include_history |-> args.include_history,
                  how |-> how,
                  new |-> results,
                  ret_history |->
                    ResultHistory(history, appended, args.include_history),
                  hist_before |-> history,
                  queue_at_call |-> args.queue_at_call,
                  queue_after |-> rest]
  /\ wargs' = [wargs EXCEPT ![w] = NoArgs]

\* _wait_for_comments_impl is called: first drain, then return or block
WaitCall(w, timeout_sec, include_history) ==
  /\ wpc[w] = "idle"
  /\ LET results == DrainResults(event_queue)
         args == [timeout_sec |-> timeout_sec,
                  include_history |-> include_history,
                  queue_at_call |-> event_queue,
                  item |-> <<>>]
     IN IF WaitBlocks(results, timeout_sec)
          THEN /\ wpc' = [wpc EXCEPT ![w] = "blocked"]
               /\ getters' = Append(getters, w)
               /\ wargs' = [wargs EXCEPT ![w] = args]
               /\ UNCHANGED <<event_queue, history, drained, lastWait>>
          ELSE /\ WaitFinish(w, args, results, DrainRest(event_queue),
                             "immediate")
               /\ UNCHANGED <<wpc, getters>>
  /\ UNCHANGED <<total_comments, published, dispatches, lastDispatch>>
  /\ UNCHANGED <<micVars, speakVars, hubVars>>

\* q.get() of a woken call runs: it takes the first item, or finds the
\* queue emptied by another call and waits again
WaitTake(w) ==
  /\ wpc[w] = "woken"
  /\ IF event_queue = <<>>
       THEN /\ wpc' = [wpc EXCEPT ![w] = "blocked"]
            /\ getters' = Append(getters, w)
            /\ UNCHANGED <<event_queue, wargs>>
       ELSE /\ wpc' = [wpc EXCEPT ![w] = "got"]
            /\ wargs' = [wargs EXCEPT ![w].item = <<Head(event_queue)>>]
            /\ event_queue' = Tail(event_queue)
            /\ UNCHANGED getters
  /\ UNCHANGED <<history, total_comments, published, drained, dispatches,
                 lastWait, lastDispatch>>
  /\ UNCHANGED <<micVars, speakVars, hubVars>>

\* wait_for hands the item to the call, which drains again and returns
WaitResume(w) ==
  /\ wpc[w] = "got"
  /\ WaitFinish(w, wargs[w], wargs[w].item \o DrainResults(event_queue),
                DrainRest(event_queue), "woken")
  /\ wpc' = [wpc EXCEPT ![w] = "idle"]
  /\ UNCHANGED <<total_comments, published, dispatches, getters,
                 lastDispatch>>
  /\ UNCHANGED <<micVars, speakVars, hubVars>>

\* the timeout of wait_for fires before q.get() took an item: the get is
\* cancelled (a wake-up it had received is passed on), TimeoutError is
\* swallowed, the call drains again and returns
WaitTimeout(w) ==
  /\ wpc[w] \in {"blocked", "woken"}
  /\ LET others == Remove(getters, w) IN
     IF wpc[w] = "woken" /\ event_queue # <<>> /\ others # <<>>
       THEN /\ wpc' = [wpc EXCEPT ![w] = "idle", ![Head(others)] = "woken"]
            /\ getters' = Tail(others)
       ELSE /\ wpc' = [wpc EXCEPT ![w] = "idle"]
            /\ getters' = others
  /\ WaitFinish(w, wargs[w], DrainResults(event_queue),
                DrainRest(event_queue), "timeout")
  /\ UNCHANGED <<total_comments, published, dispatches, lastDispatch>>
  /\ UNCHANGED <<micVars, speakVars, hubVars>>

\* ------------------------------------------------------------ specification
InitMic(loaded, prebuf) ==
  /\ micPc = "start"
  /\ stream_open = FALSE
  /\ audio_queue = <<>>
  /\ frames_total = 0
  /\ state = "IDLE"
  /\ mic_vad_state = "IDLE"
  /\ ring_buf = <<>>
  /\ speech_buf = <<>>
  /\ speech_start_time = 0
  /\ silence_start_time = 0
  /\ now = 0
  /\ whisper_loaded \in loaded
  /\ pre_buffer_sec \in prebuf
  /\ crashes = 0
  /\ seen = <<>>
  /\ idle_run = <<>>
  /\ utt = <<>>
  /\ finals = <<>>
  /\ paced = TRUE

InitStream ==
  /\ event_queue = <<>>
  /\ history = <<>>
  /\ total_comments = 0
  /\ published = <<>>
  /\ drained = <<>>
  /\ dispatches = 0
  /\ wpc = [w \in Waiters |-> "idle"]
  /\ wargs = [w \in Waiters |-> NoArgs]
  /\ getters = <<>>
  /\ lastWait = NoWait
  /\ lastDispatch = NoDispatch

InitSpeak ==
  /\ spc = [c \in Callers |-> "idle"]
  /\ lock_owner = NoOwner
  /\ lock_waiters = <<>>
  /\ polls = [c \in Callers |-> 0]
  /\ result = [c \in Callers |-> "none"]
  /\ eff = [c \in Callers |-> NoEffect]

InitHub ==
  /\ sse_clients = <<>>
  /\ audio_cache = <<>>
  /\ detached = {}
  /\ fetches = 0
  /\ served = [id \in AudioIds |-> 0]
  /\ lastFetch = NoFetch
  /\ bpc = "idle"
  /\ b_next = 0
  /\ b_cur = 0
  /\ b_dead = <<>>
  /\ b_delivered = {}
  /\ b_start = {}

\* the state after app_lifespan has started the tasks; the Whisper model
\* loaded, or not (its load failed)
Init ==
  /\ InitMic({TRUE}, {PreBufferCfg}) /\ InitStream /\ InitSpeak /\ InitHub
  /\ recording = FALSE

\* the same with the history variables of the mic task and of the
\* dispatcher recorded
InitAnyModel ==
  /\ InitMic(BOOLEAN, {PreBufferCfg}) /\ InitStream /\ InitSpeak /\ InitHub
  /\ recording = TRUE

\* the mic task with at most `frames` frames delivered and clock readings
\* up to maxt
NextMic(frames, maxt) ==
  \/ \E ok \in BOOLEAN : (ok \/ crashes < MaxCrashes) /\ MicStart(ok)
  \/ frames_total < frames /\ AudioCallback
  \/ \E prob \in Scores, t \in 0..maxt : MicFrame(prob, t)
  \/ \E t \in 0..maxt : crashes < MaxCrashes /\ MicFrameCrash(t)
  \/ \E stt \in SttResults : MicTranscribeDone(stt)

\* the steps of the speak calls cs once they hold the lock
NextSpeak(cs) ==
  \/ \E c \in cs : SpeakCall(c)
  \/ \E c \in cs : SpeakPollWake(c)
  \/ \E c \in cs, o \in QueryOutcomes : SpeakQueryDone(c, o)
  \/ \E c \in cs, o \in SynthOutcomes, playable \in BOOLEAN :
       SpeakSynthDone(c, o, playable)
  \/ \E c \in cs, dead \in SUBSET Listeners : SpeakSubtitleSent(c, dead)
  \/ \E c \in cs, dead \in SUBSET Listeners, played \in BOOLEAN :
       SpeakAudioSent(c, dead, played)
  \/ \E c \in cs : SpeakTailDone(c)
  \/ \E c \in cs, dead \in SUBSET Listeners : SpeakClearSent(c, dead)

NextHub ==
  \/ \E l \in Listeners : OverlayConnect(l)
  \/ \E l \in Listeners : OverlayDisconnect(l)

\* speak requests racing with the mic task
Next == NextMic(SpeakFrames, SpeakTime) \/ NextSpeak(1..SpeakCallers)

Spec == Init /\ [][Next]_vars

\* the mic task alone
NextMicOnly == NextMic(MaxFrames, MaxTime)

SpecMic == InitAnyModel /\ [][NextMicOnly]_vars

\* the executor call fails, or delivers a text that is published
SegStt ==
  {s \in SttResults :
     \/ s.raises
     \/ s.text_len = long_text_len /\ s.no_speech_prob = no_speech_threshold}

\* one run of the frame loop that keeps up with the audio callback: each
\* frame is processed before the next one is delivered, at any later clock
\* reading; an utterance whose frames came one per tick is followed for
\* PacedFrames frames
NextSeg ==
  \/ micPc = "start" /\ MicStart(TRUE)
  \/ /\ \/ frames_total < SegFrames
        \/ /\ frames_total < PacedFrames
           /\ state # "IDLE"
           /\ paced
     /\ micPc = "get"
     /\ audio_queue = <<>>
     /\ AudioCallback
  \/ \E prob \in Scores, t \in 0..SegTime : MicFrame(prob, t)
  \/ \E stt \in SegStt : MicTranscribeDone(stt)

SpecSeg == InitAnyModel /\ [][NextSeg]_vars

\* the mic task cancelled at any of its suspension points, with comments
\* being published
NextCancel ==
  \/ NextMicOnly
  \/ MicCancel
  \/ Len(published) < MaxEvents /\ EnqueueComment

SpecCancel == InitAnyModel /\ [][NextCancel]_vars

\* values of pre_buffer_sec (milliseconds): none, half a frame, one frame,
\* one and a half, two and three frames, and the default 0.3 s
PreBufferInputs == {0, 16, 32, 48, 64, 96, 300}

InitRing ==
  /\ InitMic({TRUE}, PreBufferInputs) /\ InitStream /\ InitSpeak /\ InitHub
  /\ recording = TRUE

\* one run of the frame loop under each value of pre_buffer_sec, the frames
\* processed as they are delivered
NextRing ==
  \/ micPc = "start" /\ MicStart(TRUE)
  \/ /\ frames_total < RingFrames
     /\ micPc = "get"
     /\ audio_queue = <<>>
     /\ AudioCallback
  \/ \E prob \in Scores : MicFrame(prob, now)

SpecRing == InitRing /\ [][NextRing]_vars

\* asyncio.sleep(5) of the supervisor returns and the loop is called again
MicRestart ==
  /\ micPc = "backoff"
  /\ \E ok \in BOOLEAN : (ok \/ crashes < MaxCrashes) /\ MicStart(ok)

\* the mic task alone, its backoff sleep always returning
SpecMicLive == SpecMic /\ WF_vars(MicRestart)

\* concurrent speak requests contending for the lock, with a mic task that
\* starts once and scores its first frames
NextLock ==
  \/ MicStart(TRUE)
  \/ frames_total < LockFrames /\ AudioCallback
  \/ \E prob \in Scores : MicFrame(prob, now)
  \/ NextSpeak(Callers)
  \/ \E c \in Callers : SpeakLockAcquired(c)

SpecLock == Init /\ [][NextLock]_vars

\* frame counts of the utterances dispatched in SpecStream: shorter than
\* min_speech_sec, short, and not shorter than 1.5 s
FrameCounts == {1, 2, 47}

\* the wait calls ws
NextWait(ws) ==
  \/ \E w \in ws, t \in Timeouts, h \in BOOLEAN : WaitCall(w, t, h)
  \/ \E w \in ws : WaitTake(w)
  \/ \E w \in ws : WaitResume(w)
  \/ \E w \in ws : WaitTimeout(w)

\* comments and mic utterances published to consumers calling wait
NextStream ==
  \/ Len(published) < MaxEvents /\ EnqueueComment
  \/ \E n \in FrameCounts, stt \in SttResults :
       Len(published) < MaxEvents /\ dispatches < MaxMicEvents
         /\ TranscribeAndEnqueue(n, stt)
  \/ NextWait(1..StreamWaiters)

SpecStream == Init /\ [][NextStream]_vars

\* one consumer polling while many comments are published
NextHistory ==
  \/ Len(published) < MaxHistEvents /\ EnqueueComment
  \/ NextWait({1})

SpecHistory == Init /\ [][NextHistory]_vars

\* both publishers and several consumers with wait calls in flight
NextFifo ==
  \/ Len(published) < FifoEvents /\ EnqueueComment
  \/ \E n \in FrameCounts, stt \in SttResults :
       Len(published) < FifoEvents /\ dispatches < MaxMicEvents
         /\ TranscribeAndEnqueue(n, stt)
  \/ NextWait(Waiters)

SpecFifo == Init /\ [][NextFifo]_vars

\* both publishers and two consumers whose wait calls overlap; the calls do
\* not ask for the history
NextDeliver ==
  \/ Len(published) < DeliverEvents /\ EnqueueComment
  \/ \E n \in FrameCounts, stt \in SegStt :
       Len(published) < DeliverEvents /\ dispatches < DeliverEvents
         /\ TranscribeAndEnqueue(n, stt)
  \/ \E w \in 1..DeliverWaiters, t \in Timeouts : WaitCall(w, t, FALSE)
  \/ \E w \in 1..DeliverWaiters : WaitTake(w)
  \/ \E w \in 1..DeliverWaiters : WaitResume(w)
  \/ \E w \in 1..DeliverWaiters : WaitTimeout(w)

SpecDeliver == Init /\ [][NextDeliver]_vars

\* the dispatcher applied to utterances of every length and every outcome
\* of the executor call, with the Whisper model loaded or not
NextDispatch ==
  \E n \in FrameCounts, stt \in SttResults :
    dispatches < MaxDispatches /\ TranscribeAndEnqueue(n, stt)

SpecDispatch == InitAnyModel /\ [][NextDispatch]_vars

\* broadcasts to overlay connections that come and go
NextCast ==
  \/ BroadcastCall
  \/ \E ok \in BOOLEAN : BroadcastWriteDone(ok)
  \/ NextHub

SpecHub == Init /\ [][NextCast]_vars

\* speak requests with the microphone silent (the flag stays IDLE, so no
\* call sleeps in the poll loop) and overlay pages fetching audio
NextAudio ==
  \/ \E c \in Callers : SpeakCall(c)
  \/ \E c \in Callers : SpeakLockAcquired(c)
  \/ \E c \in Callers, o \in QueryOutcomes : SpeakQueryDone(c, o)
  \/ \E c \in Callers, o \in SynthOutcomes, playable \in BOOLEAN :
       SpeakSynthDone(c, o, playable)
  \/ \E c \in Callers : SpeakSubtitleSent(c, {})
  \/ \E c \in Callers, played \in BOOLEAN : SpeakAudioSent(c, {}, played)
  \/ \E c \in Callers : SpeakTailDone(c)
  \/ \E c \in Callers : SpeakClearSent(c, {})
  \/ \E id \in AudioIds : fetches < MaxFetches /\ OverlayAudio(id)

SpecAudio == Init /\ [][NextAudio]_vars

\* ------------------------------------------------------------------ claims
SpeakResults == {"SUCCESS", "BLOCKED", "TTS_FAILED", "PLAY_FAILED"}

MicRunning == micPc \in {"get", "transcribe"}

\* C1: whenever a frame loop is running, the flag speak reads
\* (ctx.mic_vad_state != "IDLE") equals (the loop's state != IDLE) -- also
\* after a crash of the loop and its restart with a fresh state machine.
C1_FlagEqualsState ==
  MicRunning => ((mic_vad_state # "IDLE") <=> (state # "IDLE"))

\* C2: a speak call whose 50 polls all saw the flag set is still polling or
\* has returned BLOCKED, and has then sent no TTS request, cached no audio,
\* broadcast nothing and started no playback.
C2_BargeInBlock ==
  \A c \in Callers :
    eff[c].full_window =>
      /\ spc[c] \in {"poll_sleep", "done"}
      /\ spc[c] = "done" => result[c] = "BLOCKED"
      /\ eff[c].tts = 0
      /\ ~eff[c].cached
      /\ c \notin DOMAIN audio_cache
      /\ eff[c].bcasts = 0
      /\ eff[c].played = "no"

C2_Witness ==
  \E c \in Callers :
    eff[c].full_window /\ spc[c] = "done" /\ result[c] = "BLOCKED"

\* C3: no speak call starts its playback while the Segmenter state is
\* SPEAKING or TRAILING.
C3_NoPlaybackOverSpeech ==
  \A c \in Callers : eff[c].played \notin {"SPEAKING", "TRAILING"}

\* C4: at most one speak call is between lock acquisition and return, and
\* that call holds the lock; every other call is idle, queued or done.
C4_SpeakSerialized ==
  /\ Cardinality({c \in Callers : spc[c] \in InLock}) <= 1
  /\ \A c \in Callers : spc[c] \in InLock => lock_owner = c

C4_Witness ==
  \E c, d \in Callers : spc[c] = "tail" /\ spc[d] = "lock_wait"

\* C5: a returned speak call returned a success, BLOCKED or failure message
\* (it did not raise); a call that failed in the TTS query or synthesis
\* cached no audio, broadcast nothing, started no playback and no longer
\* holds the lock.
C5_SpeakNeverRaises ==
  \A c \in Callers :
    /\ spc[c] = "done" => result[c] \in SpeakResults
    /\ result[c] = "TTS_FAILED" =>
         /\ spc[c] = "done"
         /\ ~eff[c].cached
         /\ c \notin DOMAIN audio_cache
         /\ eff[c].bcasts = 0
         /\ eff[c].played = "no"
         /\ lock_owner # c

C5_Witness ==
  \E c \in Callers : result[c] = "TTS_FAILED" /\ eff[c].tts = 2

Returned == lastWait.how # "none"

\* C6: a wait(0, .) call returns at once the whole queue as it stood at the
\* call, in publish order (a run of consecutive published events), and
\* leaves the queue empty -- so a second such call with nothing published in
\* between returns [].
C6_QueueOrderBatching ==
  (Returned /\ lastWait.timeout_sec = 0) =>
    /\ lastWait.how = "immediate"
    /\ lastWait.new = lastWait.queue_at_call
    /\ lastWait.queue_after = <<>>
    /\ \E i \in 0..Len(published) :
         lastWait.new = SubSeq(published, i + 1, i + Len(lastWait.new))

C6_Witness ==
  /\ Returned
  /\ lastWait.timeout_sec = 0
  /\ Len(lastWait.new) = 2
  /\ lastWait.new[1].source = "comment"
  /\ lastWait.new[2].source = "mic"

\* C7 (as claimed): a wait(0, false) call that returns two events leaves
\* History as it was before the call.
C7_HistoryUntouched ==
  (Returned /\ lastWait.timeout_sec = 0 /\ ~lastWait.include_history
     /\ Len(lastWait.new) = 2)
    => history = lastWait.hist_before

\* C7 (amended): a wait(0, false) call appends the events it returns to
\* History (History after = History before followed by new, cut to the most
\* recent history_max entries) and its result has no history field.
C7_HistoryAppended ==
  (Returned /\ lastWait.timeout_sec = 0 /\ ~lastWait.include_history) =>
    /\ history = LastN(lastWait.hist_before \o lastWait.new, history_max)
    /\ lastWait.ret_history = NoHistory

C7_Witness ==
  /\ Returned
  /\ lastWait.timeout_sec = 0
  /\ ~lastWait.include_history
  /\ Len(lastWait.new) = 2
  /\ lastWait.hist_before # <<>>

\* C8: with include_history the returned history is History as it stood
\* before this call appended its events: it holds none of the events of new,
\* and History is now that snapshot followed by new (trimmed); without
\* include_history the result has no history field.
C8_HistorySnapshot ==
  Returned =>
    IF lastWait.include_history
      THEN /\ lastWait.ret_history = lastWait.hist_before
           /\ Elems(lastWait.new) \cap Elems(lastWait.ret_history) = {}
           /\ history = LastN(lastWait.ret_history \o lastWait.new,
                              history_max)
      ELSE lastWait.ret_history = NoHistory

C8_Witness ==
  /\ Returned
  /\ lastWait.include_history
  /\ Len(lastWait.ret_history) = history_max
  /\ lastWait.new # <<>>

\* C9: History never has more than history_max (20) entries and is the
\* most recent min(20, total) events ever returned by wait, oldest first.
C9_HistoryCap ==
  /\ Len(history) <= history_max
  /\ history = LastN(drained, history_max)

C9_Witness ==
  /\ Returned
  /\ Len(lastWait.new) > history_max
  /\ lastWait.hist_before # <<>>
  /\ Len(history) = history_max

\* C10: a wait call blocks exactly when the queue is empty at the call and
\* timeout_sec > 0; a blocked call that is handed an event returns it
\* followed by whatever else is queued by then; a call returns [] only
\* without blocking or through its timeout.
C10_LongPoll ==
  /\ \A w \in Waiters :
       wpc[w] # "idle" =>
         wargs[w].timeout_sec > 0 /\ wargs[w].queue_at_call = <<>>
  /\ Returned =>
       /\ lastWait.how = "immediate" <=>
            (lastWait.queue_at_call # <<>> \/ lastWait.timeout_sec = 0)
       /\ lastWait.how = "immediate" => lastWait.new = lastWait.queue_at_call
       /\ lastWait.how = "woken" => lastWait.new # <<>>
       /\ lastWait.new = <<>> => lastWait.how \in {"immediate", "timeout"}
       /\ lastWait.queue_after = <<>>

C10_Witness ==
  /\ Returned
  /\ lastWait.how = "woken"
  /\ Len(lastWait.new) = 2

\* events of s appear in the order in which they were published
InPublishOrder(s) ==
  \A i, j \in 1..Len(s) : i < j => s[i].seq < s[j].seq

\* C11: with both publishers and one or more wait calls in flight, events
\* are returned in publish order and History lists them in publish order: no
\* History holds an event before one that was published earlier.
C11_FifoUnderConcurrency ==
  /\ InPublishOrder(drained)
  /\ InPublishOrder(history)

\* the frame loop is between two frames
AtFrameBoundary == micPc = "get"

\* C12: while IDLE the ring holds the last min(N, capacity) of the N frames
\* scored below the threshold since the ring was empty, in arrival order;
\* right after the onset the utterance buffer is exactly those frames
\* followed by the triggering frame, and the ring is empty.
C12_PreRoll ==
  /\ (AtFrameBoundary /\ state = "IDLE") =>
       ring_buf = LastN(idle_run, pre_buffer_frames)
  /\ (AtFrameBoundary /\ state = "SPEAKING" /\ Len(utt) = 1) =>
       /\ speech_buf = LastN(idle_run, pre_buffer_frames) \o utt
       /\ ring_buf = <<>>
       /\ Len(idle_run) <= pre_buffer_frames =>
            speech_buf = idle_run \o utt

C12_Witness ==
  /\ AtFrameBoundary
  /\ state = "SPEAKING"
  /\ Len(utt) = 1
  /\ Len(idle_run) = pre_buffer_frames
  /\ speech_buf = idle_run \o utt

\* the same with more frames than the ring holds
C12_WitnessOverflow ==
  /\ AtFrameBoundary
  /\ state = "SPEAKING"
  /\ Len(utt) = 1
  /\ Len(idle_run) > pre_buffer_frames

\* the score the loop got for a frame it has scored
ProbOf(frame) == (CHOOSE e \in Elems(seen) : e.frame = frame).prob

\* every frame since the onset was scored at or above the threshold
AllVoiced(frames) == \A f \in Elems(frames) : ProbOf(f) >= speech_threshold

\* segmentation starts afresh
Fresh == state = "IDLE" /\ speech_buf = <<>> /\ ring_buf = <<>>

\* a frame was scored in this step
FrameScored == Len(seen') = Len(seen) + 1

\* C13: in a continuous run of voiced frames no SPEAKING frame is passed
\* with (now - speech_start) >= max_speech_sec: the first such frame
\* finalizes the utterance, once, with every frame of the run; no frame is
\* processed until the dispatch has returned, and then the state is IDLE
\* with an empty utterance buffer and an empty ring.
C13_MaxDurationFlush ==
  /\ []((AtFrameBoundary /\ state = "SPEAKING" /\ AllVoiced(utt)) =>
          now - speech_start_time < max_speech_sec)
  /\ [][(AtFrameBoundary /\ state = "SPEAKING" /\ FrameScored
           /\ now' - speech_start_time >= max_speech_sec) =>
          /\ dispatches' = dispatches + 1
          /\ finals' = Append(finals, Append(speech_buf, Head(audio_queue)))
          /\ (micPc' = "transcribe" \/ (micPc' = "get" /\ Fresh'))]_vars
  /\ [][micPc = "transcribe" =>
          /\ ~FrameScored
          /\ dispatches' = dispatches
          /\ micPc' = "get" => Fresh']_vars

C13_Witness ==
  /\ AtFrameBoundary
  /\ Fresh
  /\ Len(finals) = 1
  /\ lastDispatch.stt_calls = 1
  /\ lastDispatch.outcome = "returned"
  /\ \A i \in 1..Len(seen) : seen[i].prob >= speech_threshold
  /\ Len(finals[1]) = Len(seen)

\* the score of the frame scored in this step
ScoredProb == seen'[Len(seen')].prob

\* the frame of this step is appended to the one continuing utterance, no
\* finalize happens, and the state follows the score
Retained ==
  /\ dispatches' = dispatches
  /\ finals' = finals
  /\ speech_buf' = Append(speech_buf, Head(audio_queue))
  /\ state' = IF ScoredProb >= speech_threshold THEN "SPEAKING"
              ELSE "TRAILING"

\* the frame of this step belongs to a silence shorter than
\* silence_duration, or ends one
InShortSilence ==
  \/ state = "SPEAKING" /\ ScoredProb < speech_threshold
  \/ state = "TRAILING" /\ ScoredProb < speech_threshold
       /\ now' - silence_start_time < silence_duration
  \/ state = "TRAILING" /\ ScoredProb >= speech_threshold

\* C14 (as claimed): from SPEAKING, the frames of a silence shorter than
\* silence_duration and the voiced frame that ends it produce no finalize;
\* each is retained in the one continuing utterance buffer and the state
\* returns to SPEAKING.
C14_SilenceFlush ==
  [][(AtFrameBoundary /\ FrameScored /\ InShortSilence) => Retained]_vars

\* the first silent frame is processed in SPEAKING, where the max-duration
\* test comes first
BelowMaxDuration ==
  state = "SPEAKING" => now' - speech_start_time < max_speech_sec

\* C14 (amended): the same, provided the first silent frame is processed
\* less than max_speech_sec after speech_start; and while an utterance is
\* open its buffer is the pre-roll followed by every frame taken since the
\* onset, in order.
C14_SilenceFlushBelowMax ==
  /\ [][(AtFrameBoundary /\ FrameScored /\ InShortSilence
           /\ BelowMaxDuration) => Retained]_vars
  /\ []((AtFrameBoundary /\ state # "IDLE") =>
          speech_buf = LastN(idle_run, pre_buffer_frames) \o utt)

C14_Witness ==
  /\ AtFrameBoundary
  /\ state = "SPEAKING"
  /\ finals = <<>>
  /\ Len(utt) = 3
  /\ ProbOf(utt[2]) < speech_threshold
  /\ ProbOf(utt[3]) >= speech_threshold
  /\ speech_buf = LastN(idle_run, pre_buffer_frames) \o utt

C16_DispatcherFailure ==
  /\ [](lastDispatch.stt.raises =>
          lastDispatch.put = 0 /\ lastDispatch.outcome = "returned")
  /\ [][(micPc = "transcribe" /\ lastDispatch'.stt.raises) =>
          /\ micPc' = "get"
          /\ Fresh'
          /\ mic_vad_state' = "IDLE"
          /\ crashes' = crashes
          /\ stream_open'
          /\ published' = published
          /\ audio_queue' = audio_queue]_vars

C16_Witness ==
  /\ lastDispatch.stt.raises
  /\ lastDispatch.outcome = "returned"
  /\ crashes = 0
  /\ Len(seen) > lastDispatch.at
  /\ state = "SPEAKING"

\* a frame was taken in this step and the scorer raised on it
ScorerRaised ==
  /\ AtFrameBoundary
  /\ audio_queue # <<>>
  /\ audio_queue' = Tail(audio_queue)
  /\ ~FrameScored

IsPrefix(s, t) == Len(s) <= Len(t) /\ s = SubSeq(t, 1, Len(s))

\* C17: an exception of the scorer on one frame does not end the capture
\* loop: the same loop is still running with its stream open, the utterance
\* buffer is not discarded, and the frames behind the failing one are still
\* queued for it.
C17_CrashIsolation ==
  [][ScorerRaised =>
       /\ micPc' = "get"
       /\ stream_open'
       /\ crashes' = crashes
       /\ IsPrefix(speech_buf, speech_buf')]_vars

SegInit == [state |-> "IDLE", ring |-> <<>>, buf |-> <<>>, start |-> 0,
            silence |-> 0, finals |-> <<>>]

\* ... the finalize and reset of lines 541-545 and 560-564 ...
SegFinalize(s, frame) ==
  [s EXCEPT !.finals = Append(@, Append(s.buf, frame)),
            !.buf = <<>>, !.ring = <<>>, !.state = "IDLE"]

\* ... and one iteration of the loop body (lines 524-564) on a frame scored
\* prob with the clock reading t
SegStep(s, frame, prob, t) ==
  CASE s.state = "IDLE" ->
         IF prob >= speech_threshold
           THEN [s EXCEPT !.state = "SPEAKING",
                          !.buf = SeedUtterance(s.ring, frame),
                          !.ring = RingAfterOnset(@), !.start = t]
           ELSE [s EXCEPT !.ring = RingAppend(s.ring, frame)]
    [] s.state = "SPEAKING" ->
         IF MaxReached(Elapsed(t, s.start)) THEN SegFinalize(s, frame)
         ELSE IF prob < speech_threshold
           THEN [s EXCEPT !.buf = Append(@, frame), !.state = "TRAILING",
                          !.silence = SilenceStart(@, t)]
           ELSE [s EXCEPT !.buf = Append(@, frame)]
    [] s.state = "TRAILING" ->
         IF prob >= speech_threshold
           THEN [s EXCEPT !.buf = Append(@, frame), !.state = "SPEAKING"]
         ELSE IF SilenceElapsed(t - s.silence) THEN SegFinalize(s, frame)
         ELSE [s EXCEPT !.buf = Append(@, frame)]

\* the run in which every frame is processed when it is captured: frame
\* number f at clock reading f (one tick per frame period)
RECURSIVE PromptRun(_)
PromptRun(log) ==
  IF log = <<>> THEN SegInit
  ELSE LET e == log[Len(log)] IN
       SegStep(PromptRun(SubSeq(log, 1, Len(log) - 1)), e.frame, e.prob,
               e.frame)

\* C19: the state transitions and the finalized utterances are a function
\* of the frames and their scores alone: whatever the moment at which the
\* loop got to process each frame, they are those of the run that
\* processes every frame as it is captured.
C19_SegmentationDeterminism ==
  AtFrameBoundary =>
    /\ state = PromptRun(seen).state
    /\ finals = PromptRun(seen).finals
    /\ speech_buf = PromptRun(seen).buf

\* C20: a broadcast never fails; when it has completed, every listener that
\* was attached when it began and is still attached has been delivered the
\* payload, and every listener whose write failed has been removed --
\* also when listeners attach or detach while it is suspended in a write.
C20_BroadcastDeadListeners ==
  /\ bpc # "raised"
  /\ bpc = "done" =>
       /\ \A l \in b_start : l \in Elems(sse_clients) => l \in b_delivered
       /\ \A d \in Elems(b_dead) : d \notin Elems(sse_clients)

\* a request was answered by handle_overlay_audio in this step
Fetched == fetches' = fetches + 1

\* C21: a payload cached under an id is served exactly once: the first
\* fetch of the id returns the cached bytes and removes the entry (and only
\* that entry); every later fetch of the id and every fetch of an unknown
\* id returns 404 and leaves the cache unchanged.
C21_OneShotAudioCache ==
  /\ [](\A id \in AudioIds : served[id] <= 1)
  /\ [](served[UnknownId] = 0)
  /\ [](\A c \in Callers :
          /\ c \in DOMAIN audio_cache <=> (eff[c].cached /\ served[c] = 0)
          /\ c \in DOMAIN audio_cache => audio_cache[c] = WavOf(c))
  /\ [][Fetched =>
          LET r == lastFetch' IN
          IF r.id \in DOMAIN audio_cache
            THEN /\ r.status = 200
                 /\ r.body = WavOf(r.id)
                 /\ DOMAIN audio_cache' = DOMAIN audio_cache \ {r.id}
                 /\ \A k \in DOMAIN audio_cache' :
                      audio_cache'[k] = audio_cache[k]
            ELSE /\ r.status = 404
                 /\ r.body = NoBody
                 /\ audio_cache' = audio_cache]_vars

C21_Witness ==
  /\ lastFetch.status = 404
  /\ lastFetch.id \in Callers
  /\ served[lastFetch.id] = 1
  /\ lastFetch.cache_before # <<>>
  /\ audio_cache = lastFetch.cache_before

\* the comment events of a sequence of events, in order
Comments(s) == SelectSeq(s, LAMBDA e : e.source = "comment")

\* C22: total_comments never decreases and grows by exactly one per
\* published comment and not at all with a mic event; the k-th comment
\* published carries number k, so the comments in the queue carry distinct,
\* strictly increasing numbers, whatever the interleaving with mic events.
C22_CommentNumbering ==
  /\ [](total_comments = Len(Comments(published)))
  /\ [](\A k \in 1..Len(Comments(published)) :
          Comments(published)[k].number = k)
  /\ [](\A i, j \in 1..Len(Comments(event_queue)) :
          i < j => Comments(event_queue)[i].number
                     < Comments(event_queue)[j].number)
  /\ [][/\ total_comments' >= total_comments
        /\ total_comments' - total_comments
             = Len(Comments(published')) - Len(Comments(published))
        /\ total_comments' - total_comments \in {0, 1}
        /\ (Len(published') > Len(published)
              /\ published'[Len(published')].source = "mic")
             => total_comments' = total_comments]_vars

C22_Witness ==
  /\ Len(published) = 3
  /\ published[1].source = "comment"
  /\ published[2].source = "mic"
  /\ published[3].source = "comment"
  /\ published[3].number = 2
  /\ Len(event_queue) = 3

\* the frame of this step ends the utterance: the whole buffer, with this
\* frame, is handed to the dispatcher, once
Finalized ==
  /\ dispatches' = dispatches + 1
  /\ finals' = Append(finals, Append(speech_buf, Head(audio_queue)))

\* C23: in TRAILING a below-threshold frame finalizes the utterance iff
\* silence_duration has elapsed since silence_start; silence_start is the
\* clock reading of the most recent SPEAKING -> TRAILING transition (it is
\* set there and nowhere else); the finalize hands over the whole buffer
\* once, and when the dispatch has returned the state is IDLE with an empty
\* buffer and an empty ring.
C23_NaturalEnd ==
  /\ [][(AtFrameBoundary /\ FrameScored /\ state = "TRAILING"
           /\ ScoredProb < speech_threshold) =>
          IF now' - silence_start_time >= silence_duration
            THEN /\ Finalized
                 /\ (micPc' = "transcribe" \/ (micPc' = "get" /\ Fresh'))
            ELSE Retained]_vars
  /\ [][(AtFrameBoundary /\ FrameScored) =>
          silence_start_time' =
            IF state = "SPEAKING" /\ state' = "TRAILING" THEN now'
            ELSE silence_start_time]_vars
  /\ [][micPc = "transcribe" =>
          /\ finals' = finals
          /\ dispatches' = dispatches
          /\ micPc' = "get" => (Fresh' /\ mic_vad_state' = "IDLE")]_vars

\* an utterance with two silences, ended silence_duration after the second
\* one began
C23_Witness ==
  /\ AtFrameBoundary
  /\ Fresh
  /\ Len(finals) = 1
  /\ Len(seen) = 6
  /\ seen[1].prob >= speech_threshold
  /\ seen[2].prob < speech_threshold
  /\ seen[3].prob >= speech_threshold
  /\ seen[4].prob < speech_threshold
  /\ seen[5].prob < speech_threshold
  /\ seen[6].prob < speech_threshold
  /\ Len(finals[1]) = 6
  /\ speech_start_time = 0
  /\ silence_start_time = 2
  /\ now - silence_start_time = silence_duration

\* the frame loop can take the next queued frame now
CanTakeFrame == ENABLED (\E prob \in Scores, t \in 0..MaxTime : MicFrame(prob, t))

\* C24: while the dispatch of a finalized utterance is in flight (the
\* speech-to-text call included), the Segmenter goes on consuming the frames
\* that arrive: a frame queued meanwhile can be taken and scored without
\* waiting for the dispatch to return.
C24_DispatchOffFramePath ==
  (micPc = "transcribe" /\ audio_queue # <<>>) => CanTakeFrame

\* the steps of a complete speak cycle of call c, in order
FullCycle(c) ==
  <<Cached(c), Subtitle(TextOf(c)), SpeakEvent(c), Played, Slept,
    Subtitle(NoText)>>

\* the subtitles call c has shown and those it has cleared
Shown(c) == SelectSeq(eff[c].log, LAMBDA e : e.op = "subtitle" /\ e.arg # NoText)
Cleared(c) == SelectSeq(eff[c].log, LAMBDA e : e.op = "subtitle" /\ e.arg = NoText)

\* a speak call goes through the steps of the cycle in order while it
\* holds the lock, and has gone through all of them when it returns success
CycleInOrder ==
  \A c \in Callers :
    /\ IsPrefix(eff[c].log, FullCycle(c))
    /\ (eff[c].log # <<>> /\ spc[c] # "done") => lock_owner = c
    /\ result[c] = "SUCCESS" => eff[c].log = FullCycle(c)

\* C25: a successful speak caches the payload under a fresh id, broadcasts
\* the subtitle with the text, then the speak event naming that id, starts
\* the playback, sleeps, broadcasts the subtitle clear and only then
\* returns, all within one lock hold; and no speak call releases the lock
\* with a subtitle shown and not cleared.
C25_SpeakCycleOrder ==
  /\ CycleInOrder
  /\ \A c \in Callers :
       spc[c] = "done" => Len(Cleared(c)) = Len(Shown(c))

\* the mic task is cancelled in this step
CancelStep == micPc # "ended" /\ micPc' = "ended"

\* a cancelled mic task has closed its stream, stays ended, and the step
\* that cancels it leaves the event queue as it was
CancelEndsTask ==
  /\ [](micPc = "ended" => ~stream_open)
  /\ [][micPc = "ended" => (micPc' = "ended" /\ ~stream_open')]_vars
  /\ [][CancelStep =>
          (event_queue' = event_queue /\ published' = published)]_vars

\* C26: cancelling the mic task, wherever it is suspended, leaves the
\* audio stream closed and the task ended for good (no restart), keeps the
\* events already in the event queue, and loses no utterance already
\* handed to the dispatcher: a dispatch under way is not abandoned.
C26_Cancellation ==
  /\ CancelEndsTask
  /\ [](lastDispatch.outcome # "cancelled")

\* n frame periods last no longer than pre_buffer_sec
FramesFit(n) == n * frame_samples * 1000 <= pre_buffer_sec * sample_rate

\* the ring never holds more than its capacity, and a frame pushed into a
\* full ring takes the place of the oldest one
RingBounded ==
  /\ [](Len(ring_buf) <= pre_buffer_frames)
  /\ [][(AtFrameBoundary /\ FrameScored /\ state = "IDLE"
           /\ ScoredProb < speech_threshold) =>
          ring_buf' = IF Len(ring_buf) = pre_buffer_frames
                        THEN Append(Tail(ring_buf), Head(audio_queue))
                        ELSE Append(ring_buf, Head(audio_queue))]_vars

\* C27 (as claimed): the capacity of the ring is the ceiling of
\* pre_buffer_sec / frame_duration, the ring never holds more than that,
\* and a push into a full ring evicts exactly the oldest frame.
C27_RingBoundCeiling ==
  /\ [](MicRunning =>
          /\ (pre_buffer_frames - 1) * frame_samples * 1000
               < pre_buffer_sec * sample_rate
          /\ pre_buffer_sec * sample_rate
               <= pre_buffer_frames * frame_samples * 1000)
  /\ RingBounded

\* C27 (amended): the capacity of the ring is the floor of
\* pre_buffer_sec / frame_duration, and 1 when that is 0; the ring never
\* holds more than that, and a push into a full ring evicts exactly the
\* oldest frame.
C27_RingBoundFloor ==
  /\ [](MicRunning =>
          /\ pre_buffer_frames >= 1
          /\ ~FramesFit(pre_buffer_frames + 1)
          /\ pre_buffer_frames > 1 => FramesFit(pre_buffer_frames))
  /\ RingBounded

C27_Witness ==
  /\ pre_buffer_sec = 300
  /\ AtFrameBoundary
  /\ state = "IDLE"
  /\ Len(idle_run) = 10
  /\ ring_buf = Tail(idle_run)
  /\ Len(ring_buf) = pre_buffer_frames

InUtterance == state \in {"SPEAKING", "TRAILING"}

\* C28: at every frame boundary of a running loop the ring is empty while
\* the state is SPEAKING or TRAILING and the utterance buffer is non-empty
\* exactly then (empty exactly in IDLE); a frame goes into the ring only in
\* IDLE, and into the utterance buffer only in SPEAKING or TRAILING or at
\* the onset.
C28_BufferStateCoupling ==
  /\ [](AtFrameBoundary =>
          /\ InUtterance => ring_buf = <<>>
          /\ speech_buf # <<>> <=> InUtterance
          /\ speech_buf = <<>> <=> state = "IDLE")
  /\ [][(ring_buf' # ring_buf /\ ring_buf' # <<>>) =>
          /\ AtFrameBoundary
          /\ state = "IDLE" /\ state' = "IDLE"
          /\ ring_buf'[Len(ring_buf')] = Head(audio_queue)]_vars
  /\ [][(speech_buf' # speech_buf /\ speech_buf' # <<>>) =>
          /\ AtFrameBoundary
          /\ InUtterance \/ (state = "IDLE" /\ state' = "SPEAKING")
          /\ speech_buf'[Len(speech_buf')] = Head(audio_queue)]_vars

C28_Witness ==
  /\ AtFrameBoundary
  /\ crashes = 1
  /\ state = "TRAILING"
  /\ ring_buf = <<>>
  /\ Len(speech_buf) = 3
  /\ idle_run # <<>>

\* the frames the running loop has taken, in the order it took them (the
\* order of arrival: audio_queue is first in, first out)
SeenFrames == [i \in 1..Len(seen) |-> seen[i].frame]

\* position in the frame stream of the first and of the last frame of u
FirstAt(u) == CHOOSE i \in 1..Len(seen) : seen[i].frame = u[1]
LastAt(u) == FirstAt(u) + Len(u) - 1

\* number of frames of u in front of its first voiced frame
PreRollLen(u) ==
  Cardinality({i \in 1..Len(u) :
                 \A j \in 1..i : ProbOf(u[j]) < speech_threshold})

\* C29: every utterance handed to the dispatcher is a contiguous run of the
\* frame stream, each frame once and in arrival order: at most
\* pre_buffer_frames frames scored below the threshold (all those taken
\* since the previous utterance or the start of the loop when they are
\* fewer), then the onset frame and every frame up to the finalizing one;
\* and the utterances do not overlap.
C29_UtteranceContiguity ==
  \A k \in 1..Len(finals) :
    LET u == finals[k]
        first == FirstAt(u)
        last == LastAt(u)
        pre == PreRollLen(u)
    IN
    /\ u # <<>>
    /\ u[1] \in Elems(SeenFrames)
    /\ last <= Len(seen)
    /\ u = SubSeq(SeenFrames, first, last)
    /\ pre < Len(u)
    /\ pre <= pre_buffer_frames
    /\ pre < pre_buffer_frames =>
         first = IF k = 1 THEN 1 ELSE LastAt(finals[k - 1]) + 1
    /\ k > 1 => LastAt(finals[k - 1]) < first
    /\ k = Len(finals) /\ micPc = "transcribe" => last = Len(seen)

C29_Witness ==
  /\ Len(finals) = 2
  /\ PreRollLen(finals[2]) = 1
  /\ Len(finals[2]) = 4
  /\ Len(finals[1]) = 2

\* clock time after which the claim wants every utterance finalized
Deadline == max_speech_sec + silence_duration

\* a frame is taken in this step while an utterance is open
UtteranceFrame == AtFrameBoundary /\ FrameScored /\ InUtterance

VoicedInTrailing ==
  /\ state = "TRAILING"
  /\ ScoredProb >= speech_threshold
  /\ Retained

C32_BlockedResultState ==
  \A c \in Callers :
    (spc[c] = "done" /\ result[c] = "BLOCKED") =>
      eff[c].blocked_state \in {"SPEAKING", "TRAILING"}

\* the events q.get() has taken for a call that has not resumed yet
HeldItems == UNION {Elems(wargs[w].item) : w \in {v \in Waiters : wpc[v] = "got"}}

\* C31: with publishers and concurrent wait calls interleaved in any way,
\* no event is returned twice (by one call or by two), every returned event
\* was published, every published event is returned, still queued or held
\* by a call that is about to return it, and once all calls have returned
\* the pending count of the status equals events published minus events
\* returned.
C31_ExactlyOnceDelivery ==
  /\ \A i, j \in 1..Len(drained) : drained[i] = drained[j] => i = j
  /\ Elems(drained) \subseteq Elems(published)
  /\ Elems(published) = Elems(drained) \cup Elems(event_queue) \cup HeldItems
  /\ Elems(drained) \cap Elems(event_queue) = {}
  /\ (\A w \in Waiters : wpc[w] = "idle") =>
       PendingCount = Len(published) - Len(drained)

\* two calls in flight together: one has returned the second event while
\* the other still holds the first, which q.get() took for it
C31_Witness ==
  /\ Len(published) = DeliverEvents
  /\ \E w \in Waiters : wpc[w] = "got" /\ wargs[w].item = <<published[1]>>
  /\ lastWait.how = "woken"
  /\ drained = <<published[2]>>
  /\ PendingCount = 0

====
